---- MODULE Spec2Model ----
(***************************************************************************)
(* A model of project.py: the CryptoData / SentimentAnalysis classes and   *)
(* the module-level script that drives them.                               *)
(*                                                                         *)
(* A DataFrame is [columns, rows]: columns is the sequence of column       *)
(* names (a name is a sequence of characters), rows is the sequence of     *)
(* records in dataset order, each with its row label (the index value      *)
(* read_excel gave it) and one cell per column.  A cell is a number (an    *)
(* exact rational n/d), NaN, or a string.  Floating point is modelled by   *)
(* exact rational arithmetic.                                              *)
(***************************************************************************)
EXTENDS Integers, Sequences, FiniteSets, TLC

VARIABLES pc, file, crypto_data, sentiment_analysis, window, stats,
          most_positive, most_negative, correlation, output_file, error

vars == <<pc, file, crypto_data, sentiment_analysis, window, stats,
          most_positive, most_negative, correlation, output_file, error>>

\* ------------------------------------------------------------------ bounds

\* Longest dataset handed to the method-level pipeline.
MaxRows == 4
\* Longest dataset in a run of the whole script.
MaxScriptRows == 2
\* Largest window passed to calculate_sentiment_rolling_averages.
MaxWindow == 3
\* Longest raw column name handed to the column renaming.
MaxNameLen == 3

\* ------------------------------------------------------------------- cells

Abs(x) == IF x < 0 THEN -x ELSE x

RECURSIVE GCD(_, _)
GCD(a, b) == IF b = 0 THEN a ELSE GCD(b, a % b)

\* The number n/d (d > 0), in lowest terms.
Num(n, d) ==
    LET g == GCD(Abs(n), d)
    IN  [k |-> "num", n |-> n \div g, d |-> d \div g]

Number(n) == Num(n, 1)
NaN == [k |-> "nan"]
Str(s) == [k |-> "str", s |-> s]
None == [k |-> "None"]

IsNum(c) == c.k = "num"
IsNaN(c) == c.k = "nan"
IsStr(c) == c.k = "str"

Add(a, b) == Num(a.n * b.d + b.n * a.d, a.d * b.d)
Sub(a, b) == Num(a.n * b.d - b.n * a.d, a.d * b.d)
Mul(a, b) == Num(a.n * b.n, a.d * b.d)
DivInt(a, m) == Num(a.n, a.d * m)
Less(a, b) == a.n * b.d < b.n * a.d

RECURSIVE Sum(_)
Sum(s) == IF s = <<>> THEN Number(0) ELSE Add(Head(s), Sum(Tail(s)))

\* ------------------------------------------------------------ column names

Whitespace == {" ", "\t"}

RECURSIVE lstrip(_)
lstrip(s) ==
    IF s # <<>> /\ Head(s) \in Whitespace THEN lstrip(Tail(s)) ELSE s

RECURSIVE rstrip(_)
rstrip(s) ==
    IF s # <<>> /\ s[Len(s)] \in Whitespace
    THEN rstrip(SubSeq(s, 1, Len(s) - 1))
    ELSE s

\* A plausible slip: one whitespace character is trimmed at each end, not all.
strip_one(s) ==
    LET l == IF s # <<>> /\ Head(s) \in Whitespace THEN Tail(s) ELSE s
    IN  IF l # <<>> /\ l[Len(l)] \in Whitespace THEN SubSeq(l, 1, Len(l) - 1) ELSE l

\* str.strip()
strip(s) == rstrip(lstrip(s))

\* str.replace(" ", "_")
replace_space(s) == [i \in 1..Len(s) |-> IF s[i] = " " THEN "_" ELSE s[i]]

\* col.strip().replace(" ", "_")
normalize(col) == replace_space(strip(col))

\* The list comprehension of line 35.
normalize_columns(columns) == [j \in 1..Len(columns) |-> normalize(columns[j])]

AGE == <<"A", "g", "e">>
NAME == <<"N", "a", "m", "e">>
BRAND == <<"B", "r", "a", "n", "d">>
SATISFACTION_PERCENTAGE ==
    <<"S", "a", "t", "i", "s", "f", "a", "c", "t", "i", "o", "n", "_",
      "P", "e", "r", "c", "e", "n", "t", "a", "g", "e">>
PRODUCT_REVIEWS ==
    <<"P", "r", "o", "d", "u", "c", "t", "_", "R", "e", "v", "i", "e", "w", "s">>
SENTIMENT_ROLLING_AVERAGE ==
    <<"S", "e", "n", "t", "i", "m", "e", "n", "t", "_", "R", "o", "l", "l",
      "i", "n", "g", "_", "A", "v", "e", "r", "a", "g", "e">>

\* -------------------------------------------------------------- DataFrames

\* What a method call does: the exception it raises ("none" when it returns),
\* the object's data afterwards, and the value it returns.
Return(df, val) == [err |-> "none", data |-> df, val |-> val]
Raise(exc, df) == [err |-> exc, data |-> df, val |-> None]

\* The position of a column, 0 when there is none (a KeyError at its use).
ColPos(df, name) ==
    IF \E j \in 1..Len(df.columns) : df.columns[j] = name
    THEN CHOOSE j \in 1..Len(df.columns) :
            /\ df.columns[j] = name
            /\ \A h \in 1..(j - 1) : df.columns[h] # name
    ELSE 0

\* df[name], as the sequence of its cells in dataset order.
Column(df, j) == [i \in 1..Len(df.rows) |-> df.rows[i].cells[j]]

\* df[name] = col: an existing column is overwritten, a new one is appended.
setitem(df, name, col) ==
    LET j == ColPos(df, name)
    IN  IF j # 0
        THEN [df EXCEPT !.rows =
                [i \in 1..Len(df.rows) |-> [df.rows[i] EXCEPT !.cells[j] = col[i]]]]
        ELSE [columns |-> Append(df.columns, name),
              rows |-> [i \in 1..Len(df.rows) |->
                          [df.rows[i] EXCEPT !.cells = Append(@, col[i])]]]

\* An object column: the column holds a string.
IsObject(col) == \E i \in 1..Len(col) : IsStr(col[i])

\* Series.fillna(value): a NaN value fills nothing.
fillna(col, value) ==
    [i \in 1..Len(col) |-> IF IsNaN(col[i]) /\ ~IsNaN(value) THEN value ELSE col[i]]

\* A plausible slip: the mean divides by the number of rows, missing ones included.
mean_over_all_rows(col) ==
    LET vals == SelectSeq(col, IsNum)
    IN  IF vals = <<>> THEN NaN ELSE DivInt(Sum(vals), Len(col))

\* Series.mean(): the mean of the non-missing cells, NaN when there is none.
mean(col) ==
    LET vals == SelectSeq(col, IsNum)
    IN  IF vals = <<>> THEN NaN ELSE DivInt(Sum(vals), Len(vals))

\* pd.read_excel: the file's table under a RangeIndex 0, 1, 2, ...
read_excel(f) ==
    [columns |-> f.columns,
     rows |-> [i \in 1..Len(f.rows) |-> [label |-> i - 1, cells |-> f.rows[i]]]]

\* CryptoData.__init__
CryptoData(f) ==
    IF ~f.exists THEN Raise("FileNotFoundError", None)
    ELSE Return(read_excel(f), None)

\* A plausible slip: rows of age zero are dropped too (Age > 0).
age_mask_positive(c) == IsNum(c) /\ Less(Number(0), c)

\* (Age >= 0) & Age.notna(): a comparison with NaN is False.
age_mask(c) == IsNum(c) /\ ~Less(c, Number(0))

\* Series.clip(lower=0, upper=100) on one cell: NaN passes through.
clip(c) ==
    IF ~IsNum(c) THEN c
    ELSE IF Less(c, Number(0)) THEN Number(0)
    ELSE IF Less(Number(100), c) THEN Number(100)
    ELSE c

\* CryptoData.clean_data
clean_data(df) ==
    LET renamed == [df EXCEPT !.columns = normalize_columns(df.columns)]
        a == ColPos(renamed, AGE)
        kept == [renamed EXCEPT
                   !.rows = SelectSeq(renamed.rows, LAMBDA r : age_mask(r.cells[a]))]
        s == ColPos(kept, SATISFACTION_PERCENTAGE)
        col == Column(kept, s)
    IN  IF a = 0 THEN Raise("KeyError", renamed)
        ELSE IF s = 0 THEN Raise("KeyError", kept)
        ELSE Return(setitem(kept, SATISFACTION_PERCENTAGE,
                            [i \in 1..Len(col) |-> clip(col[i])]), None)

\* DataFrame.fillna('Not Specified'): every cell of every column.
fillna_frame(df, value) ==
    [df EXCEPT !.rows =
        [i \in 1..Len(df.rows) |->
            [df.rows[i] EXCEPT !.cells = fillna(df.rows[i].cells, value)]]]

\* CryptoData.handle_missing_values.  The in-place fillna on self.data[...] of
\* lines 48 and 51 reaches the frame, as it does in pandas without
\* copy-on-write (every release before 3.0).
handle_missing_values(df) ==
    LET s == ColPos(df, SATISFACTION_PERCENTAGE)
        col == Column(df, s)
        filled == setitem(df, SATISFACTION_PERCENTAGE, fillna(col, mean(col)))
        p == ColPos(filled, PRODUCT_REVIEWS)
        reviews == setitem(filled, PRODUCT_REVIEWS,
                           fillna(Column(filled, p), Str("Unknown")))
    IN  IF s = 0 THEN Raise("KeyError", df)
        ELSE IF IsObject(col) THEN Raise("TypeError", df)
        ELSE IF p = 0 THEN Raise("KeyError", filled)
        ELSE Return(fillna_frame(reviews, Str("Not Specified")), None)

\* A plausible slip: min_periods=1, a value wherever one observation exists.
rolling_mean_min_periods_1(col, w) ==
    [i \in 1..Len(col) |->
        LET lo == IF i - w + 1 < 1 THEN 1 ELSE i - w + 1
        IN  IF w >= 1 /\ \A j \in lo..i : IsNum(col[j])
            THEN DivInt(Sum(SubSeq(col, lo, i)), i - lo + 1)
            ELSE NaN]

\* Series.rolling(window=w).mean() for an integer w >= 0: min_periods is w, so a
\* position has a value only when its window holds w observations, none missing;
\* a window of 0 holds no observation.
rolling_mean(col, w) ==
    [i \in 1..Len(col) |->
        IF w >= 1 /\ i >= w /\ \A j \in (i - w + 1)..i : IsNum(col[j])
        THEN DivInt(Sum(SubSeq(col, i - w + 1, i)), w)
        ELSE NaN]

\* Rolling's validation of its window: an integer 0 or greater.
valid_window(w) == IsNum(w) /\ w.d = 1 /\ w.n >= 0

\* CryptoData.calculate_sentiment_rolling_averages
calculate_sentiment_rolling_averages(df, w) ==
    LET s == ColPos(df, SATISFACTION_PERCENTAGE)
        col == Column(df, s)
    IN  IF s = 0 THEN Raise("KeyError", df)
        ELSE IF ~valid_window(w) THEN Raise("ValueError", df)
        ELSE IF IsObject(col) THEN Raise("DataError", df)
        ELSE Return(setitem(df, SENTIMENT_ROLLING_AVERAGE, rolling_mean(col, w.n)), None)

\* The k-th smallest of a non-empty sequence of numbers.
kth(vals, k) ==
    CHOOSE v \in {vals[i] : i \in 1..Len(vals)} :
        /\ Cardinality({i \in 1..Len(vals) : Less(vals[i], v)}) < k
        /\ Cardinality({i \in 1..Len(vals) : ~Less(v, vals[i])}) >= k

\* Series.median()
median(col) ==
    LET vals == SelectSeq(col, IsNum)
        n == Len(vals)
    IN  IF n = 0 THEN NaN
        ELSE IF n % 2 = 1 THEN kth(vals, (n + 1) \div 2)
        ELSE DivInt(Add(kth(vals, n \div 2), kth(vals, n \div 2 + 1)), 2)

\* Series.std(): the square root of the sample variance (ddof=1), kept as the
\* root of an exact number; NaN below two observations.
std(col) ==
    LET vals == SelectSeq(col, IsNum)
        n == Len(vals)
        m == mean(col)
        sq == [i \in 1..n |-> Mul(Sub(vals[i], m), Sub(vals[i], m))]
    IN  IF n < 2 THEN NaN ELSE [k |-> "sqrt", of |-> DivInt(Sum(sq), n - 1)]

\* SentimentAnalysis.calculate_statistics
calculate_statistics(df) ==
    LET s == ColPos(df, SATISFACTION_PERCENTAGE)
        col == Column(df, s)
    IN  IF s = 0 THEN Raise("KeyError", df)
        ELSE IF IsObject(col) THEN Raise("TypeError", df)
        ELSE Return(df, [k |-> "dict", Mean |-> mean(col), Median |-> median(col),
                         Standard_Deviation |-> std(col)])

\* The positions holding the largest (dir = 1) or smallest (dir = -1) number.
extreme_positions(col, dir) ==
    {i \in 1..Len(col) :
        /\ IsNum(col[i])
        /\ \A j \in 1..Len(col) :
              IsNum(col[j]) =>
                 IF dir = 1 THEN ~Less(col[i], col[j]) ELSE ~Less(col[j], col[i])}

\* A plausible slip: the last occurrence of the extreme value wins.
idx_extreme_last(df, col, dir) ==
    LET at == extreme_positions(col, dir)
    IN  df.rows[CHOOSE i \in at : \A j \in at : j <= i].label

\* Series.idxmax() / Series.idxmin(): the label of the first occurrence.
idx_extreme(df, col, dir) ==
    LET at == extreme_positions(col, dir)
    IN  df.rows[CHOOSE i \in at : \A j \in at : i <= j].label

\* DataFrame.loc[label]: the row carrying the label (labels are unique).
loc(df, label) ==
    LET i == CHOOSE i \in 1..Len(df.rows) : df.rows[i].label = label
    IN  [k |-> "row", label |-> label, columns |-> df.columns,
         cells |-> df.rows[i].cells]

\* SentimentAnalysis.find_most_positive_negative
find_most_positive_negative(df) ==
    LET s == ColPos(df, SATISFACTION_PERCENTAGE)
        col == Column(df, s)
    IN  IF s = 0 THEN Raise("KeyError", df)
        ELSE IF IsObject(col) THEN Raise("TypeError", df)
        ELSE IF extreme_positions(col, 1) = {} THEN Raise("ValueError", df)
        ELSE Return(df, [k |-> "pair",
                         most_positive |-> loc(df, idx_extreme(df, col, 1)),
                         most_negative |-> loc(df, idx_extreme(df, col, -1))])

\* groupby('Brand')['Satisfaction_Percentage'].mean(): one mean per brand.
groupby_mean(df, b, s) ==
    LET brands == {df.rows[i].cells[b] : i \in 1..Len(df.rows)}
    IN  [g \in brands |->
            mean(Column([df EXCEPT !.rows =
                            SelectSeq(df.rows, LAMBDA r : r.cells[b] = g)], s))]

\* A variant in which the correlation step returns instead of raising.
correlate_sentiments_returns(df) == Return(df, None)

\* SentimentAnalysis.correlate_sentiments.  brand_sentiments is a Series, and
\* Series.corr has a required argument `other`: the call of line 109 passes none
\* and raises TypeError whenever it is reached.
correlate_sentiments(df) ==
    LET b == ColPos(df, BRAND)
        s == ColPos(df, SATISFACTION_PERCENTAGE)
    IN  IF b = 0 THEN Return(df, None)
        ELSE IF s = 0 THEN Raise("KeyError", df)
        ELSE IF IsObject(Column(df, s)) THEN Raise("TypeError", df)
        ELSE LET brand_sentiments == groupby_mean(df, b, s)
             IN  Raise("TypeError", df)

\* DataFrame.to_csv(output_file, index=False): the header and the rows, no labels.
to_csv(df) ==
    [k |-> "csv", header |-> df.columns,
     lines |-> [i \in 1..Len(df.rows) |-> df.rows[i].cells]]

NoFile == [k |-> "no file"]

\* Steps 4 to 6 of the script, lines 131 to 169: the three charts, the CSV and
\* the summary.  The outcome is the exception and its line (0 when the script
\* ends normally) and the output file as the script leaves it.
visualize_save_summarize(df, positive, negative) ==
    LET written == to_csv(df)
    IN  IF ColPos(df, SENTIMENT_ROLLING_AVERAGE) = 0
        THEN [err |-> "KeyError", line |-> 134, output_file |-> NoFile]
        ELSE IF ColPos(df, BRAND) = 0
        THEN [err |-> "KeyError", line |-> 143, output_file |-> NoFile]
        ELSE IF ColPos(df, PRODUCT_REVIEWS) = 0
        THEN [err |-> "KeyError", line |-> 150, output_file |-> NoFile]
        ELSE IF ColPos(positive, NAME) = 0 \/ ColPos(negative, NAME) = 0
        THEN [err |-> "KeyError", line |-> 166, output_file |-> written]
        ELSE [err |-> "none", line |-> 0, output_file |-> written]

\* ------------------------------------------------------------------ inputs

\* The elements of s at the positions in J, in order.
Pick(s, J) ==
    LET F[j \in 0..Len(s)] ==
            IF j = 0 THEN <<>>
            ELSE IF j \in J THEN Append(F[j - 1], s[j]) ELSE F[j - 1]
    IN  F[Len(s)]

SeqsUpTo(S, n) == UNION {[1..m -> S] : m \in 0..n}

\* A column name as the spreadsheet spells it: spaces for underscores.
Spaced(name) == [i \in 1..Len(name) |-> IF name[i] = "_" THEN " " ELSE name[i]]

\* The spreadsheet's header: Name, "Age " (a trailing space),
\* "Satisfaction Percentage", "Product Reviews", Brand.
RawColumns ==
    <<NAME, AGE \o <<" ">>, Spaced(SATISFACTION_PERCENTAGE),
      Spaced(PRODUCT_REVIEWS), BRAND>>

\* The rows a spreadsheet is made of: Name, Age, Satisfaction Percentage,
\* Product Reviews, Brand.
RowKinds ==
    { <<Str("Ali"), Number(7), Number(120), Str("Good"), Str("X")>>,
      <<Str("Sara"), Number(7), Number(-5), NaN, Str("Y")>>,
      <<Str("Omar"), Number(7), Number(50), Str("Bad"), Str("X")>>,
      <<Str("Hina"), Number(7), NaN, Str("Good"), NaN>>,
      <<Str("Zain"), Number(0), Number(90), Str("Good"), Str("Y")>>,
      <<Str("Noor"), Number(0), Number(30), Str("Bad"), Str("X")>>,
      <<Str("Adil"), Number(-1), Number(120), Str("Good"), Str("Y")>>,
      <<Str("Rida"), NaN, Number(90), NaN, Str("X")>> }

ScriptRowKinds ==
    { <<Str("Ali"), Number(7), Number(120), Str("Good"), Str("X")>>,
      <<Str("Sara"), Number(7), Number(-5), NaN, Str("Y")>>,
      <<Str("Hina"), Number(7), NaN, Str("Good"), NaN>>,
      <<Str("Adil"), Number(-1), Number(120), Str("Good"), Str("Y")>> }

NoSuchFile == [exists |-> FALSE, columns |-> <<>>, rows |-> <<>>]

\* A spreadsheet with the columns at positions J of the full header.
Spreadsheet(J, rows) ==
    [exists |-> TRUE, columns |-> Pick(RawColumns, J),
     rows |-> [i \in 1..Len(rows) |-> Pick(rows[i], J)]]

AllColumns == 1..Len(RawColumns)

\* The windows handed to the rolling average: -1 .. MaxWindow and 5/2.
Windows == {Number(w) : w \in (-1)..MaxWindow} \cup {Num(5, 2)}

\* The window calculate_sentiment_rolling_averages takes by default.
DefaultWindow == 3

NoError == [type |-> "none", line |-> 0]

\* --------------------------------------------------------------- the script

Init ==
    /\ pc = "load"
    /\ file \in {NoSuchFile} \cup
                {Spreadsheet(J, rows) :
                    J \in SUBSET AllColumns,
                    rows \in SeqsUpTo(ScriptRowKinds, MaxScriptRows)}
    /\ crypto_data = None
    /\ sentiment_analysis = None
    /\ window = Number(DefaultWindow)
    /\ stats = None
    /\ most_positive = None
    /\ most_negative = None
    /\ correlation = None
    /\ output_file = NoFile
    /\ error = NoError

\* The script after the statement at `line` ended as r says: on to `next`, or
\* stopped by the exception.  Only the try block of lines 64 to 70 catches, and
\* only FileNotFoundError, and then exits.
Proceed(r, line, next, caught) ==
    /\ error' = IF r.err = "none" THEN error ELSE [type |-> r.err, line |-> line]
    /\ pc' = IF r.err = "none" THEN next
             ELSE IF caught /\ r.err = "FileNotFoundError" THEN "exited"
             ELSE "crashed"

\* Line 65.
Load ==
    /\ pc = "load"
    /\ LET r == CryptoData(file)
       IN  /\ crypto_data' = r.data
           /\ Proceed(r, 65, "clean", TRUE)
    /\ UNCHANGED <<file, sentiment_analysis, window, stats, most_positive,
                   most_negative, correlation, output_file>>

\* Line 66.
Clean ==
    /\ pc = "clean"
    /\ LET r == clean_data(crypto_data)
       IN  /\ crypto_data' = r.data
           /\ Proceed(r, 66, "handle", TRUE)
    /\ UNCHANGED <<file, sentiment_analysis, window, stats, most_positive,
                   most_negative, correlation, output_file>>

\* Line 67.
HandleMissing ==
    /\ pc = "handle"
    /\ LET r == handle_missing_values(crypto_data)
       IN  /\ crypto_data' = r.data
           /\ Proceed(r, 67, "load_analysis", TRUE)
    /\ UNCHANGED <<file, sentiment_analysis, window, stats, most_positive,
                   most_negative, correlation, output_file>>

\* Line 113.
LoadAnalysis ==
    /\ pc = "load_analysis"
    /\ LET r == CryptoData(file)
       IN  /\ sentiment_analysis' = r.data
           /\ Proceed(r, 113, "clean_analysis", FALSE)
    /\ UNCHANGED <<file, crypto_data, window, stats, most_positive,
                   most_negative, correlation, output_file>>

\* Line 114.
CleanAnalysis ==
    /\ pc = "clean_analysis"
    /\ LET r == clean_data(sentiment_analysis)
       IN  /\ sentiment_analysis' = r.data
           /\ Proceed(r, 114, "handle_analysis", FALSE)
    /\ UNCHANGED <<file, crypto_data, window, stats, most_positive,
                   most_negative, correlation, output_file>>

\* Line 115.
HandleMissingAnalysis ==
    /\ pc = "handle_analysis"
    /\ LET r == handle_missing_values(sentiment_analysis)
       IN  /\ sentiment_analysis' = r.data
           /\ Proceed(r, 115, "rolling", FALSE)
    /\ UNCHANGED <<file, crypto_data, window, stats, most_positive,
                   most_negative, correlation, output_file>>

\* Line 118: the default window.
RollingAverages ==
    /\ pc = "rolling"
    /\ LET r == calculate_sentiment_rolling_averages(sentiment_analysis, window)
       IN  /\ sentiment_analysis' = r.data
           /\ Proceed(r, 118, "statistics", FALSE)
    /\ UNCHANGED <<file, crypto_data, window, stats, most_positive,
                   most_negative, correlation, output_file>>

\* Line 121.
Statistics ==
    /\ pc = "statistics"
    /\ LET r == calculate_statistics(sentiment_analysis)
       IN  /\ stats' = r.val
           /\ Proceed(r, 121, "extremes", FALSE)
    /\ UNCHANGED <<file, crypto_data, sentiment_analysis, window, most_positive,
                   most_negative, correlation, output_file>>

\* Line 122.
Extremes ==
    /\ pc = "extremes"
    /\ LET r == find_most_positive_negative(sentiment_analysis)
       IN  /\ most_positive' = IF r.err = "none" THEN r.val.most_positive ELSE None
           /\ most_negative' = IF r.err = "none" THEN r.val.most_negative ELSE None
           /\ Proceed(r, 122, "correlate", FALSE)
    /\ UNCHANGED <<file, crypto_data, sentiment_analysis, window, stats,
                   correlation, output_file>>

\* Line 123.
Correlate ==
    /\ pc = "correlate"
    /\ LET r == correlate_sentiments(sentiment_analysis)
       IN  /\ correlation' = r.val
           /\ Proceed(r, 123, "report", FALSE)
    /\ UNCHANGED <<file, crypto_data, sentiment_analysis, window, stats,
                   most_positive, most_negative, output_file>>

\* Lines 126 to 129: printing changes nothing.
Report ==
    /\ pc = "report"
    /\ pc' = "visualize"
    /\ UNCHANGED <<file, crypto_data, sentiment_analysis, window, stats,
                   most_positive, most_negative, correlation, output_file, error>>

\* Lines 131 to 169.
VisualizeSaveSummarize ==
    /\ pc = "visualize"
    /\ LET r == visualize_save_summarize(sentiment_analysis, most_positive,
                                         most_negative)
       IN  /\ output_file' = r.output_file
           /\ error' = IF r.err = "none" THEN error
                       ELSE [type |-> r.err, line |-> r.line]
           /\ pc' = IF r.err = "none" THEN "done" ELSE "crashed"
    /\ UNCHANGED <<file, crypto_data, sentiment_analysis, window, stats,
                   most_positive, most_negative, correlation>>

Next ==
    \/ Load
    \/ Clean
    \/ HandleMissing
    \/ LoadAnalysis
    \/ CleanAnalysis
    \/ HandleMissingAnalysis
    \/ RollingAverages
    \/ Statistics
    \/ Extremes
    \/ Correlate
    \/ Report
    \/ VisualizeSaveSummarize

Spec == Init /\ [][Next]_vars

\* ------------------------------------------- the methods, called in order

\* A SentimentAnalysis object over a spreadsheet with every column; clean_data
\* and handle_missing_values are called on it, then one analysis method.
InitPipeline ==
    /\ pc = "call_clean_data"
    /\ file \in {Spreadsheet(AllColumns, rows) : rows \in SeqsUpTo(RowKinds, MaxRows)}
    /\ crypto_data = None
    /\ sentiment_analysis = read_excel(file)
    /\ window = Number(DefaultWindow)
    /\ stats = None
    /\ most_positive = None
    /\ most_negative = None
    /\ correlation = None
    /\ output_file = NoFile
    /\ error = NoError

\* The call returned or raised: nothing catches.
Returned(r, next) ==
    /\ error' = [type |-> r.err, line |-> 0]
    /\ pc' = IF r.err = "none" THEN next ELSE "raised"

CallCleanData ==
    /\ pc = "call_clean_data"
    /\ LET r == clean_data(sentiment_analysis)
       IN  /\ sentiment_analysis' = r.data
           /\ Returned(r, "call_handle_missing_values")
    /\ UNCHANGED <<file, crypto_data, window, stats, most_positive,
                   most_negative, correlation, output_file>>

CallHandleMissingValues ==
    /\ pc = "call_handle_missing_values"
    /\ LET r == handle_missing_values(sentiment_analysis)
       IN  /\ sentiment_analysis' = r.data
           /\ Returned(r, "ready")
    /\ UNCHANGED <<file, crypto_data, window, stats, most_positive,
                   most_negative, correlation, output_file>>

CallRollingAverages ==
    /\ pc = "ready"
    /\ \E w \in Windows :
          LET r == calculate_sentiment_rolling_averages(sentiment_analysis, w)
          IN  /\ window' = w
              /\ sentiment_analysis' = r.data
              /\ error' = [type |-> r.err, line |-> 0]
              /\ pc' = "called_rolling"
    /\ UNCHANGED <<file, crypto_data, stats, most_positive, most_negative,
                   correlation, output_file>>

CallStatistics ==
    /\ pc = "ready"
    /\ LET r == calculate_statistics(sentiment_analysis)
       IN  /\ stats' = r.val
           /\ error' = [type |-> r.err, line |-> 0]
           /\ pc' = "called_statistics"
    /\ UNCHANGED <<file, crypto_data, sentiment_analysis, window, most_positive,
                   most_negative, correlation, output_file>>

CallFindExtremes ==
    /\ pc = "ready"
    /\ LET r == find_most_positive_negative(sentiment_analysis)
       IN  /\ most_positive' = IF r.err = "none" THEN r.val.most_positive ELSE None
           /\ most_negative' = IF r.err = "none" THEN r.val.most_negative ELSE None
           /\ error' = [type |-> r.err, line |-> 0]
           /\ pc' = "called_extremes"
    /\ UNCHANGED <<file, crypto_data, sentiment_analysis, window, stats,
                   correlation, output_file>>

NextPipeline ==
    \/ CallCleanData
    \/ CallHandleMissingValues
    \/ CallRollingAverages
    \/ CallStatistics
    \/ CallFindExtremes

SpecPipeline == InitPipeline /\ [][NextPipeline]_vars

\* ------------------------------------------------ the renaming of columns

Alphabet == {"a", "_", " ", "\t"}

\* A table of two columns with any short names and no rows.
InitRename ==
    /\ pc = "raw"
    /\ file \in {[exists |-> TRUE, columns |-> <<c1, c2>>, rows |-> <<>>] :
                    c1 \in SeqsUpTo(Alphabet, MaxNameLen),
                    c2 \in SeqsUpTo(Alphabet, MaxNameLen)}
    /\ crypto_data = read_excel(file)
    /\ sentiment_analysis = None
    /\ window = Number(DefaultWindow)
    /\ stats = None
    /\ most_positive = None
    /\ most_negative = None
    /\ correlation = None
    /\ output_file = NoFile
    /\ error = NoError

\* Line 35 alone, run on the table once and then once more.
RenameColumns ==
    /\ pc \in {"raw", "renamed"}
    /\ crypto_data' = [crypto_data EXCEPT !.columns = normalize_columns(@)]
    /\ pc' = IF pc = "raw" THEN "renamed" ELSE "renamed_again"
    /\ UNCHANGED <<file, sentiment_analysis, window, stats, most_positive,
                   most_negative, correlation, output_file, error>>

NextRename == RenameColumns

SpecRename == InitRename /\ [][NextRename]_vars

\* ------------------------------------------------------------------ claims

\* The columns of the spreadsheet of SpecPipeline, by position in RawColumns.
InAge(r) == r[2]
InSat(r) == r[3]

\* The object's columns.
SatColumn == Column(sentiment_analysis, ColPos(sentiment_analysis, SATISFACTION_PERCENTAGE))
RollingColumn ==
    Column(sentiment_analysis, ColPos(sentiment_analysis, SENTIMENT_ROLLING_AVERAGE))

ValidAge(c) == IsNum(c) /\ c.n >= 0
InRange(c) == IsNum(c) /\ c.n >= 0 /\ c.n <= 100 * c.d
Clamped(c) ==
    IF ~IsNum(c) THEN c
    ELSE IF c.n < 0 THEN Number(0)
    ELSE IF c.n > 100 * c.d THEN Number(100)
    ELSE c

\* handle_missing_values has returned.
Imputed == pc \in {"ready", "called_rolling", "called_statistics", "called_extremes"}

\* The rows of the spreadsheet that have a valid age, in order.
RetainedInput == SelectSeq(file.rows, LAMBDA r : ValidAge(InAge(r)))

\* C1: after clean_data and handle_missing_values every record's
\* Satisfaction_Percentage is a number between 0 and 100, never missing and
\* never a placeholder string, also when every input value is missing.
C1_SatisfactionIsNumberInRange ==
    Imputed => LET sat == SatColumn IN \A i \in 1..Len(sat) : InRange(sat[i])

\* C2: clean_data keeps exactly the records whose Age is a number >= 0, in
\* their input order, and changes no field of them but Satisfaction_Percentage,
\* which it clamps.
C2_FilterKeepsExactlyValidAges ==
    pc = "call_handle_missing_values" =>
        LET rows == sentiment_analysis.rows
            s == ColPos(sentiment_analysis, SATISFACTION_PERCENTAGE)
        IN  /\ {rows[i].label : i \in 1..Len(rows)} =
                   {l \in 0..(Len(file.rows) - 1) : ValidAge(InAge(file.rows[l + 1]))}
            /\ \A i, j \in 1..Len(rows) : i < j => rows[i].label < rows[j].label
            /\ \A i \in 1..Len(rows) :
                  LET orig == file.rows[rows[i].label + 1]
                  IN  /\ Len(rows[i].cells) = Len(orig)
                      /\ \A c \in 1..Len(orig) :
                            rows[i].cells[c] = IF c = s THEN Clamped(orig[c]) ELSE orig[c]

\* C2's case: of four rows one with a negative and one with a missing age were
\* dropped, a row of age 0 was kept, and a kept value was clamped.
C2_Witness ==
    /\ pc = "call_handle_missing_values"
    /\ Len(file.rows) = 4
    /\ Len(sentiment_analysis.rows) = 2
    /\ \E i \in 1..4 : IsNaN(InAge(file.rows[i]))
    /\ \E i \in 1..4 : IsNum(InAge(file.rows[i])) /\ InAge(file.rows[i]).n < 0
    /\ \E i \in 1..4 : InAge(file.rows[i]) = Number(0)
    /\ \E i \in 1..2 :
          SatColumn[i] # InSat(file.rows[sentiment_analysis.rows[i].label + 1])

\* C3: after the rolling average with a window w >= 1, position i (counted over
\* the retained records) holds the mean of the w values at i-w+1..i when
\* i >= w-1 (0-indexed), and no value before that.
C3_RollingIsTrailingMean ==
    (pc = "called_rolling" /\ error.type = "none" /\ window.n >= 1) =>
        LET sat == SatColumn
            avg == RollingColumn
        IN  /\ Len(avg) = Len(sat)
            /\ \A i \in 1..Len(sat) :
                  IF i >= window.n
                  THEN /\ IsNum(avg[i])
                       /\ Mul(avg[i], window) = Sum(SubSeq(sat, i - window.n + 1, i))
                  ELSE IsNaN(avg[i])

\* C3's case: window 2 over three retained records whose labels are not
\* their positions, with a mean that differs from the value at its position.
C3_Witness ==
    /\ pc = "called_rolling"
    /\ error.type = "none"
    /\ window = Number(2)
    /\ Len(SatColumn) = 3
    /\ sentiment_analysis.rows[1].label = 1
    /\ IsNaN(RollingColumn[1])
    /\ RollingColumn[3] # SatColumn[3]
    /\ RollingColumn[3] # RollingColumn[2]

Brands ==
    LET b == ColPos(sentiment_analysis, BRAND)
    IN  IF b = 0 THEN {}
        ELSE {sentiment_analysis.rows[i].cells[b] : i \in 1..Len(sentiment_analysis.rows)}

\* Line 123 has run.
Correlated == pc = "report" \/ (pc = "crashed" /\ error.line = 123)

\* C5: correlate_sentiments never raises; without a Brand column or with
\* fewer than two brands it returns "not applicable" (None), with two or more
\* it returns a number.
C5_CorrelationNeverRaises ==
    Correlated =>
        /\ error.type = "none"
        /\ Cardinality(Brands) < 2 => correlation = None
        /\ Cardinality(Brands) >= 2 => IsNum(correlation)

\* Position i of a column of numbers holds its largest, its smallest value.
IsMax(sat, i) == \A j \in 1..Len(sat) : sat[j].n * sat[i].d <= sat[i].n * sat[j].d
IsMin(sat, i) == \A j \in 1..Len(sat) : sat[i].n * sat[j].d <= sat[j].n * sat[i].d

\* C6: find_most_positive_negative returns the first record in dataset order
\* that attains the maximum, and the first that attains the minimum; for the
\* values 50, 90, 90, 30 the most positive is the record at position 1
\* (0-indexed), not the one at position 2.
C6_FirstExtremeWins ==
    (pc = "called_extremes" /\ error.type = "none") =>
        LET rows == sentiment_analysis.rows
            sat == SatColumn
        IN  /\ \E i \in 1..Len(rows) :
                  /\ IsMax(sat, i) /\ \A j \in 1..(i - 1) : ~IsMax(sat, j)
                  /\ most_positive.label = rows[i].label
                  /\ most_positive.cells = rows[i].cells
            /\ \E i \in 1..Len(rows) :
                  /\ IsMin(sat, i) /\ \A j \in 1..(i - 1) : ~IsMin(sat, j)
                  /\ most_negative.label = rows[i].label
                  /\ most_negative.cells = rows[i].cells
            /\ sat = <<Number(50), Number(90), Number(90), Number(30)>> =>
                  most_positive.cells = rows[2].cells /\ most_positive.label = rows[2].label

\* C6's case: the first of four rows was dropped, so labels are no longer
\* positions; the values left are 90, 90, 30 and the maximum is found at its
\* first occurrence, the record at position 0 with label 1.
C6_Witness ==
    /\ pc = "called_extremes"
    /\ error.type = "none"
    /\ Len(file.rows) = 4
    /\ SatColumn = <<Number(90), Number(90), Number(30)>>
    /\ sentiment_analysis.rows[1].label = 1
    /\ most_positive.label = 1
    /\ most_negative.label = 3

\* C7: on a dataset with no record both calculate_statistics and
\* find_most_positive_negative raise; neither returns statistics.
C7_EmptyDatasetRaises ==
    (pc \in {"called_statistics", "called_extremes"} /\ sentiment_analysis.rows = <<>>) =>
        error.type # "none"

\* C8: a window that is zero, negative or no integer makes the rolling average
\* raise and write no Sentiment_Rolling_Average column.
C8_InvalidWindowRaises ==
    (pc = "called_rolling" /\ ~(window.d = 1 /\ window.n >= 1)) =>
        /\ error.type # "none"
        /\ ColPos(sentiment_analysis, SENTIMENT_ROLLING_AVERAGE) = 0

\* The clamped values of the retained records that are not missing.
KnownValues ==
    LET known == SelectSeq(RetainedInput, LAMBDA r : IsNum(InSat(r)))
    IN  [i \in 1..Len(known) |-> Clamped(InSat(known[i]))]

\* C9: the value imputed for a missing Satisfaction_Percentage is the mean of
\* the non-missing values of the retained records, clamped; the values 120,
\* -5, 50, missing become 100, 0, 50, 50, and their window-3 rolling averages
\* at positions 2 and 3 are 50 and 100/3.
C9_ImputedIsMeanOfRetainedClamped ==
    Imputed =>
        LET sat == SatColumn
            retained == RetainedInput
            known == KnownValues
        IN  /\ known # <<>> =>
                  /\ Len(sat) = Len(retained)
                  /\ \A i \in 1..Len(sat) :
                        IF IsNum(InSat(retained[i]))
                        THEN sat[i] = Clamped(InSat(retained[i]))
                        ELSE /\ IsNum(sat[i])
                             /\ Mul(sat[i], Number(Len(known))) = Sum(known)
            /\ ([i \in 1..Len(file.rows) |-> InSat(file.rows[i])]
                      = <<Number(120), Number(-5), Number(50), NaN>>
                  /\ Len(retained) = 4) =>
                  /\ sat = <<Number(100), Number(0), Number(50), Number(50)>>
                  /\ (pc = "called_rolling" /\ window = Number(3)) =>
                        LET avg == RollingColumn
                        IN  avg[3] = Number(50) /\ avg[4] = Num(100, 3)

\* C9's case: the values 120, -5, 50, missing, imputed and averaged.
C9_Witness ==
    /\ pc = "called_rolling"
    /\ window = Number(3)
    /\ error.type = "none"
    /\ [i \in 1..Len(file.rows) |-> InSat(file.rows[i])]
          = <<Number(120), Number(-5), Number(50), NaN>>
    /\ SatColumn[4] = Number(50)
    /\ RollingColumn[4] = Num(100, 3)

\* C10: renaming the columns a second time changes no column name.
C10_RenamingIsIdempotent ==
    [][pc = "renamed" => crypto_data'.columns = crypto_data.columns]_vars

\* C10's case: a name with surrounding whitespace and an inner space was
\* renamed, and then renamed again.
C10_Witness ==
    /\ pc = "renamed_again"
    /\ file.columns[1] = <<"\t", "a", " ">>
    /\ file.columns[2] = <<"a", " ", "a">>
    /\ crypto_data.columns = <<<<"a">>, <<"a", "_", "a">>>>

====
